---- MODULE Spec2Model ----
(***************************************************************************)
(* Model of the VCVR feature-preparation pipeline of train-model.py:       *)
(* clean_and_impute (fit), save_model (the bundle) and                     *)
(* predict_vcvr_from_features (replay of the saved plan).                  *)
(*                                                                         *)
(* A cell value is an extended rational [n, d]: n/d for a finite number,   *)
(* 1/0 and -1/0 for +inf and -inf, 0/0 for NaN (a missing cell).  Means    *)
(* and medians are therefore exact.  A data frame is a record              *)
(*   [cols: sequence of names, dtype: name -> "num"|"obj",                 *)
(*    rows: sequence of (name -> value), index: sequence of row labels].   *)
(***************************************************************************)
EXTENDS Integers, Sequences, FiniteSets, TLC

\* ------------------------------------------------------------------ bounds
MaxRows == 3

MaxNarrowRows == 4

\* --------------------------------------------------------- program config
TARGET_COL == "VCVR"
ID_COLS == <<"URL">>
INTERNAL_FLAG_COL == "IsInternal"
sentinel_value == -1
ClicksFloor == 1
ClicksCap == 1000
InternalMultiplier == 2

\* ------------------------------------------------------ extended rationals
Abs(k) == IF k < 0 THEN -k ELSE k

Sign(k) == IF k < 0 THEN -1 ELSE IF k > 0 THEN 1 ELSE 0

RECURSIVE GCD(_, _)
GCD(a, b) == IF b = 0 THEN a ELSE GCD(b, a % b)

Norm(n, d) ==
    IF d = 0 THEN [n |-> Sign(n), d |-> 0]
    ELSE LET g == GCD(Abs(n), d) IN [n |-> n \div g, d |-> d \div g]

Num(k) == [n |-> k, d |-> 1]

NaN == [n |-> 0, d |-> 0]

PInf == [n |-> 1, d |-> 0]

NInf == [n |-> -1, d |-> 0]

isnull(v) == v = NaN

\* IEEE comparison: anything compared with NaN is false.
Less(a, b) ==
    /\ ~isnull(a)
    /\ ~isnull(b)
    /\ IF a.d = 0 /\ b.d = 0 THEN a.n < b.n ELSE a.n * b.d < b.n * a.d

Add(a, b) ==
    IF isnull(a) \/ isnull(b) THEN NaN
    ELSE IF a.d = 0 /\ b.d = 0 THEN (IF a = b THEN a ELSE NaN)
    ELSE Norm(a.n * b.d + b.n * a.d, a.d * b.d)

DivInt(a, k) == IF k = 0 THEN NaN ELSE Norm(a.n, a.d * k)

MaxVal(a, b) == IF Less(a, b) THEN b ELSE a

MinVal(a, b) == IF Less(b, a) THEN b ELSE a

\* ----------------------------------------------------------- sequence aids
Range(s) == {s[i] : i \in DOMAIN s}

RECURSIVE SortedSeq(_)
SortedSeq(S) ==
    IF S = {} THEN <<>>
    ELSE LET m == CHOOSE x \in S : \A z \in S : x <= z
         IN <<m>> \o SortedSeq(S \ {m})

\* The subsequence of s at the positions in the set keep, order preserved.
Pick(s, keep) ==
    LET pos == SortedSeq(keep)
    IN [k \in 1..Len(pos) |-> s[pos[k]]]

RECURSIVE SumSeq(_)
SumSeq(s) == IF s = <<>> THEN Num(0) ELSE Add(s[1], SumSeq(Tail(s)))

RECURSIVE Insert(_, _)
Insert(v, s) ==
    IF s = <<>> THEN <<v>>
    ELSE IF Less(s[1], v) THEN <<s[1]>> \o Insert(v, Tail(s))
    ELSE <<v>> \o s

RECURSIVE SortVals(_)
SortVals(s) == IF s = <<>> THEN <<>> ELSE Insert(s[1], SortVals(Tail(s)))

\* Series.mean(): NaN cells are skipped; the mean of nothing is NaN.
mean(s) ==
    LET v == Pick(s, {i \in DOMAIN s : ~isnull(s[i])})
    IN DivInt(SumSeq(v), Len(v))

\* Series.median(): NaN cells are skipped; the middle value, or the mean of
\* the two middle values; the median of nothing is NaN.
median(s) ==
    LET v == SortVals(Pick(s, {i \in DOMAIN s : ~isnull(s[i])}))
        k == Len(v)
    IN IF k = 0 THEN NaN
       ELSE IF k % 2 = 1 THEN v[(k + 1) \div 2]
       ELSE DivInt(Add(v[k \div 2], v[k \div 2 + 1]), 2)

\* ----------------------------------------------------------------- frames
EmptyMap == [c \in {} |-> NaN]

EmptyFrame == [cols |-> <<>>, dtype |-> EmptyMap, rows |-> <<>>, index |-> <<>>]

HasCol(f, c) == c \in Range(f.cols)

Column(f, c) == [i \in DOMAIN f.rows |-> f.rows[i][c]]

\* df[c] = values: overwrites the column in place or appends a new one.
SetColumn(f, c, dt, vals) ==
    [cols  |-> IF HasCol(f, c) THEN f.cols ELSE Append(f.cols, c),
     dtype |-> (c :> dt) @@ f.dtype,
     rows  |-> [i \in DOMAIN f.rows |-> (c :> vals[i]) @@ f.rows[i]],
     index |-> f.index]

\* df[cols]: the listed columns, in the listed order.
SelectColumns(f, cs) ==
    [cols  |-> cs,
     dtype |-> [c \in Range(cs) |-> f.dtype[c]],
     rows  |-> [i \in DOMAIN f.rows |-> [c \in Range(cs) |-> f.rows[i][c]]],
     index |-> f.index]

\* df.drop(columns=cs)
DropColumns(f, cs) ==
    SelectColumns(f, Pick(f.cols, {i \in DOMAIN f.cols : f.cols[i] \notin Range(cs)}))

\* df[mask]: the rows at the positions in keep, each with its index label.
SelectRows(f, keep) ==
    [cols  |-> f.cols,
     dtype |-> f.dtype,
     rows  |-> Pick(f.rows, keep),
     index |-> Pick(f.index, keep)]

\* s.loc[labels] on a series with index idx (labels are unique).
Loc(idx, s, labels) ==
    [k \in DOMAIN labels |-> s[CHOOSE i \in DOMAIN idx : idx[i] = labels[k]]]

\* df.select_dtypes(include=[np.number]).columns
NumericCols(f) == Pick(f.cols, {i \in DOMAIN f.cols : f.dtype[f.cols[i]] = "num"})

\* df.isnull().mean()[c]: the fraction of missing cells (0/0 on no rows).
MissingRatio(f, c) ==
    Norm(Cardinality({i \in DOMAIN f.rows : isnull(f.rows[i][c])}), Len(f.rows))

fillna(s, v) == [i \in DOMAIN s |-> IF isnull(s[i]) THEN v ELSE s[i]]

HasNull(f) == \E i \in DOMAIN f.rows : \E c \in Range(f.cols) : isnull(f.rows[i][c])

\* ------------------------------------------------ clean_and_impute (fit)
\* 0.40, the largest tolerated fraction of missing cells of a column.
DropThreshold == [n |-> 2, d |-> 5]

\* Mutation of DropMissingTarget: the row filter is forgotten.
DropMissingTarget_keepAll(f) == f

\* Step 1: df = df[df[TARGET_COL].notnull()]
DropMissingTarget(f) ==
    SelectRows(f, {i \in DOMAIN f.rows : ~isnull(f.rows[i][TARGET_COL])})

\* Mutation of RankSentinel: a missing RANK is filled with 0, not the sentinel.
RankSentinel_zeroFill(f) ==
    LET rank == Column(f, "RANK")
        flagged == SetColumn(f, "RANK_missing", "num",
                       [i \in DOMAIN rank |-> IF isnull(rank[i]) THEN Num(1) ELSE Num(0)])
    IN SetColumn(flagged, "RANK", f.dtype["RANK"], fillna(rank, Num(0)))

\* Step 2: RANK_missing = RANK.isnull().astype(int); RANK = RANK.fillna(-1)
RankSentinel(f) ==
    LET rank == Column(f, "RANK")
        flagged == SetColumn(f, "RANK_missing", "num",
                       [i \in DOMAIN rank |-> IF isnull(rank[i]) THEN Num(1) ELSE Num(0)])
    IN SetColumn(flagged, "RANK", f.dtype["RANK"], fillna(rank, Num(sentinel_value)))

\* df.groupby("Category")[TARGET_COL].agg(mean, median, count): one entry per
\* category that occurs; rows whose category is missing form no group.
CategoryStats(f) ==
    LET cat == Column(f, "Category")
        tgt == Column(f, TARGET_COL)
        of(g) == Pick(tgt, {i \in DOMAIN tgt : cat[i] = g})
    IN [g \in {cat[i] : i \in DOMAIN cat} \ {NaN} |->
          [cat_mean_vcvr   |-> mean(of(g)),
           cat_median_vcvr |-> median(of(g)),
           cat_count       |-> Num(Len(Pick(of(g), {i \in DOMAIN of(g) : ~isnull(of(g)[i])})))]]

CatStatCols == <<"cat_mean_vcvr", "cat_median_vcvr", "cat_count">>

\* df.merge(cat_stats, on="Category", how="left"): every left row once, in
\* order, with its category's aggregates (NaN when the category has no
\* group); the result gets a fresh 0..n-1 index.
MergeCategoryStats(f, cat_stats) ==
    [cols  |-> f.cols \o CatStatCols,
     dtype |-> [c \in Range(CatStatCols) |-> "num"] @@ f.dtype,
     rows  |-> [i \in DOMAIN f.rows |->
                  LET g == f.rows[i]["Category"]
                  IN [c \in Range(CatStatCols) |->
                        IF g \in DOMAIN cat_stats THEN cat_stats[g][c] ELSE NaN]
                     @@ f.rows[i]],
     index |-> [i \in DOMAIN f.rows |-> i - 1]]

\* The merge sits inside the RANK block and outside the Category test, so
\* it runs whenever RANK is present; cat_stats is bound only when Category
\* is present.
MergeReached(f) == HasCol(f, "RANK")

CatStatsBound(f) == HasCol(f, "Category")

\* Step 2 as a whole (lines 84-119), for a frame on which it does not raise.
SpecialHandling(f) ==
    IF ~HasCol(f, "RANK") THEN f
    ELSE LET s == RankSentinel(f)
         IN IF MergeReached(f) THEN MergeCategoryStats(s, CategoryStats(s)) ELSE s

SentinelCols(f) ==
    IF HasCol(f, "RANK") THEN ("RANK" :> Num(sentinel_value)) ELSE EmptyMap

PruneExempt == {TARGET_COL, "RANK", "RANK_missing"}

\* Step 3: the columns whose missing fraction exceeds 0.40, in column order.
ColsToDrop(f) ==
    Pick(f.cols, {i \in DOMAIN f.cols :
                     /\ f.cols[i] \notin PruneExempt
                     /\ Less(DropThreshold, MissingRatio(f, f.cols[i]))})

\* Steps 4 and 5: drop the identifier columns and the target, keep the
\* numeric columns.
FeatureFrame(f) ==
    LET id_cols_present == Pick(ID_COLS, {i \in DOMAIN ID_COLS : HasCol(f, ID_COLS[i])})
        feature_df == DropColumns(f, id_cols_present \o <<TARGET_COL>>)
    IN SelectColumns(feature_df, NumericCols(feature_df))

special_impute_cols == {"RANK", "RANK_missing"}

\* "COUNT" in col.upper() or "RATIO" in col.upper() or "PERCENT" in col.upper(),
\* decided for the column names that occur in the model.
CountLike(c) == c \in {"clicks_count", "cat_count"}

\* Step 6: the columns the loop fills: not special, and col_missing == 0 is
\* false (which it also is for the NaN ratio of a frame without rows).
NeedsFill(fd, c) ==
    /\ c \notin special_impute_cols
    /\ MissingRatio(fd, c) # Num(0)

ZeroCols(fd) ==
    Pick(fd.cols, {i \in DOMAIN fd.cols : NeedsFill(fd, fd.cols[i]) /\ CountLike(fd.cols[i])})

MedianCols(fd) ==
    [c \in {c \in Range(fd.cols) : NeedsFill(fd, c) /\ ~CountLike(c)} |->
        median(Column(fd, c))]

Impute(fd) ==
    LET zero == Range(ZeroCols(fd))
        med == MedianCols(fd)
    IN [fd EXCEPT !.rows =
          [i \in DOMAIN fd.rows |->
             [c \in Range(fd.cols) |->
                LET v == fd.rows[i][c]
                IN IF ~isnull(v) THEN v
                   ELSE IF c \in zero THEN Num(0)
                   ELSE IF c \in DOMAIN med THEN med[c]
                   ELSE v]]]

\* Final safety check: the number of rows that still hold a NaN.  The code
\* prints it in a warning and goes on.
NBad(X0) ==
    Cardinality({i \in DOMAIN X0.rows : \E c \in Range(X0.cols) : isnull(X0.rows[i][c])})

\* Mutation of BaseRadicand: the cap of 1000 is forgotten.
BaseRadicand_noCap(clicks) == MaxVal(clicks, Num(ClicksFloor))

\* Step 8.  A weight sqrt(r) * m is kept as the pair [radicand |-> r,
\* multiplier |-> m], since sqrt(1000) is irrational; its square is r * m * m.
BaseRadicand(clicks) ==
    MinVal(MaxVal(clicks, Num(ClicksFloor)), Num(ClicksCap))

\* clip() keeps a NaN, and so does sqrt.
ClipClicks(clicks) == IF isnull(clicks) THEN NaN ELSE BaseRadicand(clicks)

InternalFlag(v) == IF fillna(<<v>>, Num(0))[1] # Num(0) THEN 1 ELSE 0

Multiplier(v) == IF InternalFlag(v) = 1 THEN InternalMultiplier ELSE 1

SampleWeight(f, X0) ==
    LET base == IF HasCol(f, "Clicks")
                THEN LET clicks == Loc(f.index, Column(f, "Clicks"), X0.index)
                     IN [k \in DOMAIN clicks |-> ClipClicks(clicks[k])]
                ELSE [k \in DOMAIN X0.rows |-> Num(1)]
        mult == IF HasCol(f, INTERNAL_FLAG_COL)
                THEN LET flag == Loc(f.index, Column(f, INTERNAL_FLAG_COL), X0.index)
                     IN [k \in DOMAIN flag |-> Multiplier(flag[k])]
                ELSE [k \in DOMAIN X0.rows |-> 1]
    IN [k \in DOMAIN X0.rows |-> [radicand |-> base[k], multiplier |-> mult[k]]]

\* clean_and_impute raises UnboundLocalError at the merge when cat_stats was
\* never assigned.
CleanRaises(f0) ==
    LET f == DropMissingTarget(f0)
    IN HasCol(f, "RANK") /\ MergeReached(f) /\ ~CatStatsBound(f)

\* The values clean_and_impute returns (with df, its frame after pruning).
clean_and_impute(f0) ==
    LET f1 == SpecialHandling(DropMissingTarget(f0))
        cols_to_drop == ColsToDrop(f1)
        f2 == DropColumns(f1, cols_to_drop)
        fd == FeatureFrame(f2)
        X0 == Impute(fd)
    IN [df |-> f2,
        X |-> X0,
        y |-> [index |-> X0.index,
               values |-> Loc(f2.index, Column(f2, TARGET_COL), X0.index)],
        imputation_info |->
            [zero_cols |-> ZeroCols(fd),
             median_cols |-> MedianCols(fd),
             dropped_cols |-> cols_to_drop,
             sentinel_cols |-> SentinelCols(DropMissingTarget(f0))],
        n_bad |-> NBad(X0),
        sample_weight |-> SampleWeight(f2, X0)]

\* ------------------------------------------------------- predict (replay)
NoInfo ==
    [zero_cols |-> <<>>, median_cols |-> EmptyMap,
     dropped_cols |-> <<>>, sentinel_cols |-> EmptyMap]

\* The payload of save_model; has_info is false for a bundle stored without
\* its imputation_info (payload.get gives None).
NoBundle == [feature_columns |-> <<>>, imputation_info |-> NoInfo, has_info |-> FALSE]

\* df[col] = df[col].fillna(v) for every listed column the frame has.
FillColumns(f, cs, v) ==
    [f EXCEPT !.rows =
       [i \in DOMAIN f.rows |->
          [c \in Range(f.cols) |->
             IF c \in cs /\ isnull(f.rows[i][c]) THEN v[c] ELSE f.rows[i][c]]]]

\* df.fillna(0)
FillAll(f) == FillColumns(f, Range(f.cols), [c \in Range(f.cols) |-> Num(0)])

\* Mutation of apply_basic_imputation_for_inference: the plan is ignored and
\* every gap becomes 0.
apply_imputation_ignorePlan(f, b) == FillAll(f)

apply_basic_imputation_for_inference(f, b) ==
    IF ~b.has_info THEN FillAll(f)
    ELSE LET info == b.imputation_info
             zero == Range(info.zero_cols)
             z == FillColumns(f, zero, [c \in zero |-> Num(0)])
             m == FillColumns(z, DOMAIN info.median_cols, info.median_cols)
         IN FillAll(m)

\* Mutation of Reindex: the missing columns are added, but the input's own
\* columns are kept, in the input's order.
Reindex_keepInput(f, cs) ==
    LET out == f.cols \o Pick(cs, {i \in DOMAIN cs : ~HasCol(f, cs[i])})
    IN [cols  |-> out,
        dtype |-> [c \in Range(out) |-> "num"],
        rows  |-> [i \in DOMAIN f.rows |->
                     [c \in Range(out) |-> IF HasCol(f, c) THEN f.rows[i][c] ELSE Num(0)]],
        index |-> f.index]

\* features_num.reindex(columns=feature_columns, fill_value=0.0)
Reindex(f, cs) ==
    [cols  |-> cs,
     dtype |-> [c \in Range(cs) |-> "num"],
     rows  |-> [i \in DOMAIN f.rows |->
                  [c \in Range(cs) |-> IF HasCol(f, c) THEN f.rows[i][c] ELSE Num(0)]],
     index |-> f.index]

\* The numeric restriction and the replayed plan of predict_vcvr_from_features.
FeaturesNum(f, b) ==
    apply_basic_imputation_for_inference(SelectColumns(f, NumericCols(f)), b)

\* The matrix predict_vcvr_from_features hands to model.predict.
PredictMatrix(f, b) == Reindex(FeaturesNum(f, b), b.feature_columns)

\* ------------------------------------------------------------ the datasets
\* CSV column order and dtypes of the columns that occur in the model.
\* URL cells are the row numbers and Category cells the numbers 1, 2; both
\* stand for strings (dtype "obj").
CsvColumns ==
    <<"URL", "VCVR", "RANK", "Category", "Clicks", "IsInternal", "clicks_count", "x">>

CsvDtype(c) == IF c \in {"URL", "Category"} THEN "obj" ELSE "num"

\* Families of datasets: the cell values each column may take.  RANK is a
\* positive rank when present, so the sentinel -1 is out of its range.
Profiles ==
    { [VCVR |-> {NaN, Num(2), Num(4)}, RANK |-> {Num(7)},
       Category |-> {NaN, Num(1), Num(2)}],
      [VCVR |-> {NaN, Num(2)}, RANK |-> {NaN, Num(7)}, Category |-> {NaN, Num(1)}],
      [VCVR |-> {NaN, Num(2)},
       Clicks |-> {NaN, Num(-3), Num(0), Num(9), Num(1000), Num(2000)}],
      [VCVR |-> {NaN, Num(2)}, Clicks |-> {NaN, Num(2000)},
       IsInternal |-> {NaN, Num(0), Num(1)}],
      [VCVR |-> {NaN, Num(2)}, IsInternal |-> {NaN, Num(0), Num(1), Num(5)}],
      [VCVR |-> {NaN, Num(2)}, x |-> {NaN, Num(1), Num(3), PInf, NInf}],
      [VCVR |-> {NaN, Num(2)}, clicks_count |-> {NaN, Num(5)}, x |-> {NaN, Num(1)}],
      [VCVR |-> {NaN, Num(2)}, RANK |-> {NaN, Num(7)}, Category |-> {Num(1)},
       Clicks |-> {NaN, Num(9)}] }

\* Families with few cell values, taken with one more row.
NarrowProfiles ==
    { [VCVR |-> {NaN, Num(2)}, x |-> {NaN, Num(1), Num(3)}],
      [VCVR |-> {NaN, Num(2)}, RANK |-> {NaN, Num(7)}, Category |-> {Num(1)}] }

RowSpace(p, S) ==
    {r \in [S -> UNION {p[c] : c \in S}] : \A c \in S : r[c] \in p[c]}

MakeFrame(S, cells) ==
    LET cs == Pick(CsvColumns, {i \in DOMAIN CsvColumns : CsvColumns[i] \in S \cup {"URL"}})
    IN [cols  |-> cs,
        dtype |-> [c \in Range(cs) |-> CsvDtype(c)],
        rows  |-> [i \in DOMAIN cells |-> ("URL" :> Num(i)) @@ cells[i]],
        index |-> [i \in DOMAIN cells |-> i - 1]]

\* f is a dataset of n rows over a subset of the columns of family p.
IsDatasetOf(f, p, n) ==
    \E S \in SUBSET (DOMAIN p) :
        \E cells \in [1..n -> RowSpace(p, S)] : f = MakeFrame(S, cells)

IsDataset(f) ==
    \/ \E p \in Profiles : \E n \in 0..MaxRows : IsDatasetOf(f, p, n)
    \/ \E p \in NarrowProfiles : \E n \in 0..MaxNarrowRows : IsDatasetOf(f, p, n)

\* ------------------------------------------------------------------ state
VARIABLES pc, raw, df, X, y, imputation_info, sample_weight, n_bad, error,
          bundle, features, features_num, X_pred

vars == <<pc, raw, df, X, y, imputation_info, sample_weight, n_bad, error,
          bundle, features, features_num, X_pred>>

NoSeries == [index |-> <<>>, values |-> <<>>]

Blank ==
    /\ df = EmptyFrame
    /\ X = EmptyFrame
    /\ y = NoSeries
    /\ imputation_info = NoInfo
    /\ sample_weight = <<>>
    /\ n_bad = 0
    /\ error = "none"
    /\ features = EmptyFrame
    /\ features_num = EmptyFrame
    /\ X_pred = EmptyFrame

Init ==
    /\ pc = "start"
    /\ IsDataset(raw)
    /\ bundle = NoBundle
    /\ Blank

\* load_data: a dataset without the target column is refused.
load_data ==
    /\ pc = "start"
    /\ IF HasCol(raw, TARGET_COL)
       THEN pc' = "loaded" /\ error' = error
       ELSE pc' = "raised" /\ error' = "ValueError"
    /\ UNCHANGED <<raw, df, X, y, imputation_info, sample_weight, n_bad,
                   bundle, features, features_num, X_pred>>

\* main: X, y, imputation_info, sample_weight = clean_and_impute(df)
CleanAndImpute ==
    /\ pc = "loaded"
    /\ IF CleanRaises(raw)
       THEN /\ pc' = "raised"
            /\ error' = "UnboundLocalError"
            /\ UNCHANGED <<df, X, y, imputation_info, sample_weight, n_bad>>
       ELSE LET r == clean_and_impute(raw)
            IN /\ pc' = "cleaned"
               /\ error' = error
               /\ df' = r.df
               /\ X' = r.X
               /\ y' = r.y
               /\ imputation_info' = r.imputation_info
               /\ sample_weight' = r.sample_weight
               /\ n_bad' = r.n_bad
    /\ UNCHANGED <<raw, bundle, features, features_num, X_pred>>

\* main: train_model(X, y, sample_weight).  The regressor is opaque; the
\* 80/20 train_test_split refuses fewer than two rows.
train_model ==
    /\ pc = "cleaned"
    /\ IF Len(X.rows) < 2
       THEN pc' = "raised" /\ error' = "ValueError"
       ELSE pc' = "trained" /\ error' = error
    /\ UNCHANGED <<raw, df, X, y, imputation_info, sample_weight, n_bad,
                   bundle, features, features_num, X_pred>>

\* main: save_model(model, X.columns, imputation_info, MODEL_PATH)
save_model ==
    /\ pc = "trained"
    /\ pc' = "saved"
    /\ bundle' = [feature_columns |-> X.cols,
                  imputation_info |-> imputation_info,
                  has_info |-> TRUE]
    /\ UNCHANGED <<raw, df, X, y, imputation_info, sample_weight, n_bad, error,
                   features, features_num, X_pred>>

\* predict_vcvr_from_features(features) against the saved bundle.
Predict(f) ==
    /\ features' = f
    /\ features_num' = FeaturesNum(f, bundle)
    /\ X_pred' = PredictMatrix(f, bundle)
    /\ pc' = "predicted"

\* The raw feature values of the training file: every row (as the smoke test
\* of the prediction script feeds them), or the rows fit kept.
TrainingFeatures(keptOnly) ==
    DropColumns(IF keptOnly THEN DropMissingTarget(raw) ELSE raw, <<"URL", "VCVR">>)

PredictOnTraining ==
    /\ pc = "saved"
    /\ \E keptOnly \in BOOLEAN : Predict(TrainingFeatures(keptOnly))
    /\ UNCHANGED <<raw, df, X, y, imputation_info, sample_weight, n_bad, error,
                   bundle>>

Next ==
    \/ load_data
    \/ CleanAndImpute
    \/ train_model
    \/ save_model
    \/ PredictOnTraining

Spec == Init /\ [][Next]_vars

\* ----------------------------------------- predict on arbitrary input
MaxFrameRows == 2

FrameNames == {"clicks_count", "x", "w"}

\* Every arrangement of every subset of S: the column orders.
RECURSIVE Arrangements(_)
Arrangements(S) ==
    {<<>>} \cup UNION {{<<c>> \o t : t \in Arrangements(S \ {c})} : c \in S}

\* Plans as fit writes them: a column is zero-filled or median-filled, never
\* both, and a stored median is a number.
Plans ==
    {[zero_cols |-> z, median_cols |-> m,
      dropped_cols |-> <<>>, sentinel_cols |-> EmptyMap] :
        z \in {<<>>, <<"clicks_count">>},
        m \in {EmptyMap, [c \in {"x"} |-> Num(5)],
               [c \in {"x", "w"} |-> IF c = "x" THEN Num(5) ELSE DivInt(Num(5), 2)]}}

Bundles ==
    {[feature_columns |-> fc, imputation_info |-> info, has_info |-> TRUE] :
        fc \in Arrangements(FrameNames), info \in Plans}
    \cup {[feature_columns |-> fc, imputation_info |-> NoInfo, has_info |-> FALSE] :
            fc \in Arrangements(FrameNames)}

\* An input frame: any arrangement of columns, each numeric (cells NaN or 3)
\* or non-numeric (its cells stand for strings).
InputFrame(cs, dt, cells) ==
    [cols |-> cs, dtype |-> dt, rows |-> cells,
     index |-> [i \in DOMAIN cells |-> i - 1]]

InitPredict ==
    /\ pc = "saved"
    /\ raw = EmptyFrame
    /\ bundle \in Bundles
    /\ Blank

PredictAny ==
    /\ pc = "saved"
    /\ \E cs \in Arrangements(FrameNames) : \E n \in 0..MaxFrameRows :
         \E dt \in [Range(cs) -> {"num", "obj"}] :
           \E cells \in [1..n -> [Range(cs) -> {NaN, Num(3)}]] :
             /\ \A i \in 1..n : \A c \in Range(cs) :
                    dt[c] = "obj" => cells[i][c] = Num(3)
             /\ Predict(InputFrame(cs, dt, cells))
    /\ UNCHANGED <<raw, df, X, y, imputation_info, sample_weight, n_bad, error,
                   bundle>>

NextPredict == PredictAny

SpecPredict == InitPredict /\ [][NextPredict]_vars

\* ================================================================ claims
\* clean_and_impute has returned (main has its X, y, plan and weights).
Returned == pc \in {"cleaned", "trained", "saved", "predicted"}

\* The input rows that carry a target, and the input row of the k-th kept row
\* (URL cells are the input row numbers).
TargetRows == {i \in DOMAIN raw.rows : ~isnull(raw.rows[i][TARGET_COL])}

Src(k) == df.rows[k]["URL"].n

\* The cells of input column c over the input rows in the set sel, in input
\* order.
RawOver(c, sel) ==
    LET pos == SortedSeq(sel)
    IN [k \in 1..Len(pos) |-> raw.rows[pos[k]][c]]

MissingAmongTarget(c) == Cardinality({i \in TargetRows : isnull(raw.rows[i][c])})

\* The aggregate c of category g over the target-bearing input rows.
CatAggregate(g, c) ==
    LET t == RawOver(TARGET_COL, {i \in TargetRows : raw.rows[i]["Category"] = g})
    IN IF c = "cat_mean_vcvr" THEN mean(t)
       ELSE IF c = "cat_median_vcvr" THEN median(t)
       ELSE Num(Len(t))

\* ---------------------------------------------------------------- C1
\* C1: replaying the saved plan and feature_columns in predict on the raw
\* feature values of the rows fit kept yields, cell for cell, the matrix X
\* that clean_and_impute returned (RANK, RANK_missing and the category
\* aggregates included).  Stated for the matrices X without a missing value,
\* so that a difference is the replay's own.
C1_ReplayEqualsFit ==
    (pc = "predicted" /\ features = TrainingFeatures(TRUE) /\ ~HasNull(X)) =>
        /\ X_pred.cols = X.cols
        /\ Len(X_pred.rows) = Len(X.rows)
        /\ \A i \in DOMAIN X.rows : \A c \in Range(X.cols) :
               X_pred.rows[i][c] = X.rows[i][c]

\* ---------------------------------------------------------------- C4
\* C4: either the X that clean_and_impute returns has no missing value, or
\* clean_and_impute fails; training and saving never see a matrix with a
\* missing value.
C4_NoMissingOrError == Returned => ~HasNull(X)

\* ---------------------------------------------------------------- C5
\* C5: sample_weight has one entry per row of X and every entry is a defined
\* number that is at least 1, also for rows whose Clicks or IsInternal cell
\* is missing, zero or negative (the columns having survived pruning).
C5_WeightsDefinedAndPositive ==
    Returned =>
        /\ Len(sample_weight) = Len(X.rows)
        /\ \A k \in DOMAIN sample_weight :
               /\ ~isnull(sample_weight[k].radicand)
               /\ ~Less(sample_weight[k].radicand, Num(1))
               /\ sample_weight[k].multiplier >= 1

\* ---------------------------------------------------------------- C6
\* min(max(v, 1), 1000), written out.
Clamped(v) ==
    IF Less(v, Num(1)) THEN Num(1) ELSE IF Less(Num(1000), v) THEN Num(1000) ELSE v

\* The weight formula for the columns in the frame f (the input, or the
\* frame after pruning): weight = sqrt(min(max(v,1),1000)) * m for a present
\* volume v and a present flag; base 1 without a Clicks column; m = 1
\* without an IsInternal column.
WeightFormula(f) ==
    \A k \in DOMAIN sample_weight :
        LET r == raw.rows[Src(k)]
            w == sample_weight[k]
        IN /\ (HasCol(f, "Clicks") /\ ~isnull(r["Clicks"])) =>
                  w.radicand = Clamped(r["Clicks"])
           /\ ~HasCol(f, "Clicks") => w.radicand = Num(1)
           /\ (HasCol(f, INTERNAL_FLAG_COL) /\ ~isnull(r[INTERNAL_FLAG_COL])) =>
                  w.multiplier = (IF r[INTERNAL_FLAG_COL] # Num(0) THEN 2 ELSE 1)
           /\ ~HasCol(f, INTERNAL_FLAG_COL) => w.multiplier = 1

\* C6 as stated: for every kept row with a present volume v and a present
\* internal flag, weight^2 = min(max(v,1),1000) * m^2 with m = 2 for an
\* internal row and 1 otherwise; base 1 when the input has no Clicks column,
\* m = 1 when it has no IsInternal column.
C6_WeightFormula_AsStated == Returned => WeightFormula(raw)

\* C6 as amended: the same, for the Clicks and IsInternal columns that
\* survived column pruning; a pruned column counts as absent (base 1, m = 1).
C6_WeightFormula == Returned => WeightFormula(df)

\* A capped internal row (v = 2000 gives sqrt(1000) * 2) next to a floored one.
C6_Witness ==
    /\ Returned
    /\ HasCol(df, "Clicks")
    /\ HasCol(df, INTERNAL_FLAG_COL)
    /\ \E k \in DOMAIN sample_weight :
           /\ raw.rows[Src(k)]["Clicks"] = Num(2000)
           /\ raw.rows[Src(k)][INTERNAL_FLAG_COL] = Num(1)
           /\ sample_weight[k] = [radicand |-> Num(1000), multiplier |-> 2]
    /\ \E k \in DOMAIN sample_weight : sample_weight[k].multiplier = 1

\* ---------------------------------------------------------------- C7
\* C7: for a dataset with the target column, clean_and_impute never raises,
\* whichever of Clicks, IsInternal, Category is absent and whether or not
\* RANK is present.  Stated for the datasets with at least two target-bearing
\* rows, which can be trained on.
C7_OptionalAbsenceNotFatal ==
    (HasCol(raw, TARGET_COL) /\ Cardinality(TargetRows) >= 2) =>
        error # "UnboundLocalError"

\* ---------------------------------------------------------------- C8
\* C8: every row of X and entry of y comes from an input row with a present
\* target, X and y hold the same rows in input order, and the statistics
\* (missing fractions, medians, category aggregates) are those of the
\* target-bearing rows alone.
C8_TargetRowsOnly ==
    Returned =>
        /\ Len(X.rows) = Cardinality(TargetRows)
        /\ Len(y.values) = Len(X.rows)
        /\ Len(df.rows) = Len(X.rows)
        /\ y.index = X.index
        /\ df.index = X.index
        /\ \A k \in DOMAIN X.rows :
               /\ Src(k) \in TargetRows
               /\ y.values[k] = raw.rows[Src(k)][TARGET_COL]
               /\ \A c \in Range(X.cols) \cap Range(raw.cols) :
                      ~isnull(raw.rows[Src(k)][c]) => X.rows[k][c] = raw.rows[Src(k)][c]
               /\ \A l \in DOMAIN X.rows : k < l => Src(k) < Src(l)
        /\ \A c \in DOMAIN imputation_info.median_cols \cap Range(raw.cols) :
               imputation_info.median_cols[c] = median(RawOver(c, TargetRows))
        /\ \A c \in Range(raw.cols) \ {TARGET_COL, "RANK"} :
               c \in Range(imputation_info.dropped_cols)
                   <=> 5 * MissingAmongTarget(c) > 2 * Cardinality(TargetRows)
        /\ \A c \in Range(CatStatCols) : HasCol(df, c) =>
               \A k \in DOMAIN df.rows :
                   LET g == raw.rows[Src(k)]["Category"]
                   IN ~isnull(g) => df.rows[k][c] = CatAggregate(g, c)

\* A dropped row with a value of x that would have moved the median of x,
\* which was used to fill a kept row.
C8_Witness ==
    /\ Returned
    /\ Len(X.rows) >= 2
    /\ "x" \in DOMAIN imputation_info.median_cols
    /\ \E i \in DOMAIN raw.rows :
           /\ isnull(raw.rows[i][TARGET_COL])
           /\ ~isnull(raw.rows[i]["x"])
           /\ median(Column(raw, "x")) # imputation_info.median_cols["x"]

\* ---------------------------------------------------------------- C9
\* C9: with a numeric RANK column, after fit (a) sentinel_cols maps RANK to
\* -1, (b) X has RANK and RANK_missing, (c) RANK_missing is 1 exactly where
\* RANK was missing, RANK is -1 exactly there and its original value
\* elsewhere, (d) neither column is in dropped_cols, zero_cols or median_cols.
C9_RankSentinel ==
    (Returned /\ HasCol(raw, "RANK")) =>
        /\ imputation_info.sentinel_cols = ("RANK" :> Num(-1))
        /\ {"RANK", "RANK_missing"} \subseteq Range(X.cols)
        /\ \A k \in DOMAIN X.rows :
               LET orig == raw.rows[Src(k)]["RANK"]
               IN /\ X.rows[k]["RANK_missing"] = (IF isnull(orig) THEN Num(1) ELSE Num(0))
                  /\ X.rows[k]["RANK"] = (IF isnull(orig) THEN Num(-1) ELSE orig)
                  /\ (X.rows[k]["RANK"] = Num(-1)) <=> isnull(orig)
        /\ {"RANK", "RANK_missing"} \cap
               (Range(imputation_info.dropped_cols) \cup Range(imputation_info.zero_cols)
                    \cup DOMAIN imputation_info.median_cols) = {}

\* RANK missing in more than 40% of the kept rows, present in another.
C9_Witness ==
    /\ Returned
    /\ HasCol(raw, "RANK")
    /\ 5 * MissingAmongTarget("RANK") > 2 * Cardinality(TargetRows)
    /\ \E k \in DOMAIN X.rows : X.rows[k]["RANK_missing"] = Num(1) /\ X.rows[k]["RANK"] = Num(-1)
    /\ \E k \in DOMAIN X.rows : X.rows[k]["RANK_missing"] = Num(0) /\ X.rows[k]["RANK"] = Num(7)

\* --------------------------------------------------------------- C10
\* C10: whenever the input has a Category column (RANK present or not), every
\* kept row carries the mean, median and count of the target over the kept
\* rows of its category, and the join changes neither the number nor the
\* order of the rows.
C10_CategoryEnrichment ==
    (Returned /\ HasCol(raw, "Category")) =>
        /\ Len(df.rows) = Cardinality(TargetRows)
        /\ \A k, l \in DOMAIN df.rows : k < l => Src(k) < Src(l)
        /\ \A k \in DOMAIN df.rows :
               LET g == raw.rows[Src(k)]["Category"]
               IN ~isnull(g) =>
                      \A c \in Range(CatStatCols) \ Range(imputation_info.dropped_cols) :
                          HasCol(df, c) /\ df.rows[k][c] = CatAggregate(g, c)

\* ---------------------------------------------------------------- C2
\* C2: the matrix handed to the regressor has exactly the bundle's
\* feature_columns, in that order; a feature column that is absent from the
\* input or non-numeric there is 0 in every row, an input column outside
\* feature_columns is dropped, and there is one row per input row.
C2_PredictShape ==
    pc = "predicted" =>
        /\ X_pred.cols = bundle.feature_columns
        /\ Len(X_pred.rows) = Len(features.rows)
        /\ \A i \in DOMAIN X_pred.rows :
               /\ DOMAIN X_pred.rows[i] = Range(bundle.feature_columns)
               /\ \A c \in Range(bundle.feature_columns) :
                      IF HasCol(features, c) /\ features.dtype[c] = "num"
                      THEN ~isnull(features.rows[i][c]) =>
                               X_pred.rows[i][c] = features.rows[i][c]
                      ELSE X_pred.rows[i][c] = Num(0)

\* Two rows; one feature column absent from the input, one non-numeric in
\* it, one input column outside feature_columns, another column order.
C2_Witness ==
    /\ pc = "predicted"
    /\ Len(features.rows) = 2
    /\ bundle.feature_columns = <<"x", "w", "clicks_count">>
    /\ features.cols = <<"clicks_count", "x">>
    /\ features.dtype["x"] = "obj"
    /\ features.rows[1]["clicks_count"] = Num(3)
    /\ X_pred.rows[1] = [x |-> Num(0), w |-> Num(0), clicks_count |-> Num(3)]

\* ---------------------------------------------------------------- C3
\* C3: after apply_basic_imputation_for_inference with a plan, a missing cell
\* of a zero_cols column is 0, a missing cell of a median_cols column is the
\* stored median, a non-missing cell is unchanged, a plan column absent from
\* the input is neither an error nor created, and no missing value is left
\* (any other missing cell is 0).
C3_PlanReplay ==
    (pc = "predicted" /\ bundle.has_info) =>
        LET zero == Range(bundle.imputation_info.zero_cols)
            med == bundle.imputation_info.median_cols
        IN /\ Range(features_num.cols) =
                  {c \in Range(features.cols) : features.dtype[c] = "num"}
           /\ Len(features_num.rows) = Len(features.rows)
           /\ \A i \in DOMAIN features_num.rows : \A c \in Range(features_num.cols) :
                  LET v == features.rows[i][c]
                      out == features_num.rows[i][c]
                  IN /\ ~isnull(out)
                     /\ ~isnull(v) => out = v
                     /\ (isnull(v) /\ c \in zero) => out = Num(0)
                     /\ (isnull(v) /\ c \in DOMAIN med) => out = med[c]
                     /\ (isnull(v) /\ c \notin zero /\ c \notin DOMAIN med) => out = Num(0)

\* The example of the specification: zero_cols = {clicks_count}, median_cols
\* = {x: 5}, a null in both columns; and a plan column (w) not in the input.
C3_Witness ==
    /\ pc = "predicted"
    /\ bundle.has_info
    /\ bundle.imputation_info.zero_cols = <<"clicks_count">>
    /\ DOMAIN bundle.imputation_info.median_cols = {"x", "w"}
    /\ features.cols = <<"clicks_count", "x">>
    /\ features.dtype = [c \in {"clicks_count", "x"} |-> "num"]
    /\ Len(features.rows) = 2
    /\ features.rows[1] = [clicks_count |-> NaN, x |-> NaN]
    /\ features_num.rows[1] = [clicks_count |-> Num(0), x |-> Num(5)]
    /\ features_num.cols = <<"clicks_count", "x">>

====
